---------------------------- MODULE Spec2Model ----------------------------
(***************************************************************************)
(* A model of prost-simple-rpc: the call state machines ClientFuture and   *)
(* ServerFuture (src/src/__rt.rs), the error type (src/src/error.rs), the  *)
(* code emitted by the service generator (src/build/src/lib.rs) and the    *)
(* example services (src/example/src/main.rs).                             *)
(***************************************************************************)
EXTENDS Integers, Sequences, FiniteSets, TLC

(***************************************************************************)
(* Bounds of the model.                                                    *)
(***************************************************************************)
\* longest raw byte buffer the environment hands to a decoder
MaxPayloadLen == 3
\* longest bytes/string field the environment puts in a typed request
MaxDataLen == 2

(***************************************************************************)
(* Byte strings.  A buffer is a sequence of numbers 0..255.                *)
(***************************************************************************)
RECURSIVE SeqsUpTo(_, _)
SeqsUpTo(S, n) ==
    IF n = 0 THEN {<<>>}
    ELSE LET shorter == SeqsUpTo(S, n - 1)
         IN  shorter \cup {Append(s, x) : s \in {t \in shorter : Len(t) = n - 1}, x \in S}

\* bytes of raw buffers: a field-1 key, a field-2 varint key, a data byte,
\* and a byte that is a varint continuation and never valid UTF-8
PayloadBytes == {1, 10, 16, 255}
RawPayloads == SeqsUpTo(PayloadBytes, MaxPayloadLen)

\* the inputs of the example's tests and main: vec![1, 2, 3] and "dflemstr"
TestData == <<1, 2, 3>>
TestName == <<100, 102, 108, 101, 109, 115, 116, 114>>
DataBytes == {1, 97}
Datas == SeqsUpTo(DataBytes, MaxDataLen) \cup {TestData}
Names == SeqsUpTo({97}, MaxDataLen) \cup {TestName}

(***************************************************************************)
(* Messages.  Every message type of the example schemas has one field,     *)
(* number 1: bytes `data` (echo) or a string `name` / `greeting`           *)
(* (greeting).  A message is [type, data].  "Unrepresentable" is a message *)
(* type whose prost::Message::encode reports an EncodeError.               *)
(***************************************************************************)
StringTypes == {"SayHelloRequest", "SayHelloResponse",
                "SayGoodbyeRequest", "SayGoodbyeResponse"}
BytesTypes == {"EchoRequest", "EchoResponse"}
Msg(t, d) == [type |-> t, data |-> d]
Unrepresentable == Msg("Unrepresentable", <<>>)

(***************************************************************************)
(* Results.  Ok/Err model Result<T, E>; Ready/NotReady/Panicked model what *)
(* one poll hands back (futures::Poll, or the panic unwinding out of it).  *)
(***************************************************************************)
Ok(v) == [tag |-> "Ok", val |-> v]
Err(e) == [tag |-> "Err", err |-> e]
Ready(v) == [tag |-> "Ready", val |-> v]
NotReady == [tag |-> "NotReady"]
Panicked == [tag |-> "Panic"]
NoPoll == [tag |-> "None"]

(***************************************************************************)
(* error::Error<E>                                                         *)
(***************************************************************************)
Execution(e) == [variant |-> "Execution", error |-> e]
DecodeErr == [variant |-> "Decode"]
EncodeErr == [variant |-> "Encode"]
CanceledErr == [variant |-> "Canceled"]
\* a variant of execution that hands the error on unwrapped
execution_flat(error) == error
\* Error::execution
execution(error) == Execution(error)
\* From<prost::DecodeError>, From<prost::EncodeError>, From<futures::Canceled>
from_decode_error == DecodeErr
from_encode_error == EncodeErr
from_canceled == CanceledErr
\* the example's unit struct `Error`, the business error
BizError == [variant |-> "Error"]

RECURSIVE ExecutionDepth(_)
ExecutionDepth(e) ==
    IF e.variant = "Execution" THEN 1 + ExecutionDepth(e.error) ELSE 0
RECURSIVE Innermost(_)
Innermost(e) == IF e.variant = "Execution" THEN Innermost(e.error) ELSE e

(***************************************************************************)
(* Wire codec: protobuf encoding of a message with one length-delimited    *)
(* field (number 1), as prost writes and reads it.                         *)
(***************************************************************************)
WireVarint == 0
WireSixtyFour == 1
WireLengthDelimited == 2
WireThirtyTwo == 5
Key(tag, wire) == tag * 8 + wire

RECURSIVE EncodeVarint(_)
EncodeVarint(n) ==
    IF n < 128 THEN <<n>> ELSE <<128 + (n % 128)>> \o EncodeVarint(n \div 128)

\* [ok, val, rest]: the varint at the head of buf
RECURSIVE DecodeVarint(_)
DecodeVarint(buf) ==
    IF buf = <<>> THEN [ok |-> FALSE, val |-> 0, rest |-> <<>>]
    ELSE IF Head(buf) < 128 THEN [ok |-> TRUE, val |-> Head(buf), rest |-> Tail(buf)]
    ELSE LET r == DecodeVarint(Tail(buf))
         IN  [ok |-> r.ok, val |-> (Head(buf) - 128) + 128 * r.val, rest |-> r.rest]

Utf8(d) == \A i \in 1..Len(d) : d[i] < 128
Drop(buf, n) == SubSeq(buf, n + 1, Len(buf))

\* a variant of encoded_len that leaves out the length prefix of the field
encoded_len_short(m) ==
    IF m.data = <<>> THEN 0 ELSE 1 + Len(m.data)
\* prost's Message::encoded_len and encode_raw: a default (empty) field is not written
encoded_len(m) ==
    IF m.data = <<>> THEN 0 ELSE 1 + Len(EncodeVarint(Len(m.data))) + Len(m.data)
\* a variant of encode_raw that writes the field under number 2
encode_raw_tag2(m) ==
    IF m.data = <<>> THEN <<>>
    ELSE <<Key(2, WireLengthDelimited)>> \o EncodeVarint(Len(m.data)) \o m.data
encode_raw(m) ==
    IF m.data = <<>> THEN <<>>
    ELSE <<Key(1, WireLengthDelimited)>> \o EncodeVarint(Len(m.data)) \o m.data

\* __rt::encode: a buffer of encoded_len capacity, then prost's encode into it
encode(message) ==
    IF message.type = "Unrepresentable" THEN Err(from_encode_error)
    ELSE IF Len(encode_raw(message)) > encoded_len(message) THEN Err(from_encode_error)
    ELSE Ok(encode_raw(message))

\* prost's merge loop for message type t: data is the field value so far
RECURSIVE Merge(_, _, _)
Merge(t, data, buf) ==
    IF buf = <<>> THEN Ok(Msg(t, data))
    ELSE LET k == DecodeVarint(buf) IN
         IF ~k.ok THEN Err(from_decode_error)
         ELSE LET wire == k.val % 8
                  tag == k.val \div 8
              IN
              IF wire \notin {WireVarint, WireSixtyFour, WireLengthDelimited, WireThirtyTwo}
                  THEN Err(from_decode_error)
              ELSE IF tag = 0 THEN Err(from_decode_error)
              ELSE IF wire = WireLengthDelimited THEN
                  LET l == DecodeVarint(k.rest) IN
                  IF ~l.ok \/ l.val > Len(l.rest) THEN Err(from_decode_error)
                  ELSE LET v == SubSeq(l.rest, 1, l.val) IN
                       IF tag # 1 THEN Merge(t, data, Drop(l.rest, l.val))
                       ELSE IF t \in StringTypes /\ ~Utf8(v) THEN Err(from_decode_error)
                       ELSE Merge(t, v, Drop(l.rest, l.val))
              ELSE IF tag = 1 THEN Err(from_decode_error)
              ELSE IF wire = WireVarint THEN
                  LET s == DecodeVarint(k.rest) IN
                  IF ~s.ok THEN Err(from_decode_error) ELSE Merge(t, data, s.rest)
              ELSE LET n == IF wire = WireSixtyFour THEN 8 ELSE 4 IN
                   IF Len(k.rest) < n THEN Err(from_decode_error)
                   ELSE Merge(t, data, Drop(k.rest, n))

\* __rt::decode::<_, M, _>: hydrate a default M from the buffer
decode(buf, M) == Merge(M, <<>>, buf)

(***************************************************************************)
(* Service declarations handed to the generator (prost_build::Service),    *)
(* as the example's build script compiles them.                            *)
(***************************************************************************)
Method(n, pn, it, ot) ==
    [name |-> n, proto_name |-> pn, input_type |-> it, output_type |-> ot,
     client_streaming |-> FALSE, server_streaming |-> FALSE]
EchoDecl ==
    [name |-> "Echo",
     methods |-> <<Method("echo", "Echo", "EchoRequest", "EchoResponse")>>]
GreetingDecl ==
    [name |-> "Greeting",
     methods |-> <<Method("say_hello", "SayHello", "SayHelloRequest", "SayHelloResponse"),
                   Method("say_goodbye", "SayGoodbye", "SayGoodbyeRequest",
                          "SayGoodbyeResponse")>>]
Decls == {EchoDecl, GreetingDecl}
Decl(n) == CHOOSE d \in Decls : d.name = n

(***************************************************************************)
(* ServiceGenerator::generate: one pass over service.methods fills the     *)
(* fragments, which are then written into the template.  Each fragment is  *)
(* kept as the sequence of its entries, in the order written.              *)
(***************************************************************************)
\* trait_methods: fn {name}(&self, input: {input_type}) -> Self::{Name}Future
trait_methods(service) ==
    [i \in 1..Len(service.methods) |->
        [name |-> service.methods[i].name,
         input_type |-> service.methods[i].input_type,
         output_type |-> service.methods[i].output_type]]
\* enum_methods: the variants of enum {Service}MethodDescriptor
enum_methods(service) ==
    [i \in 1..Len(service.methods) |-> service.methods[i].proto_name]
\* list_enum_methods: the entries of the slice methods() returns
list_enum_methods(service) ==
    [i \in 1..Len(service.methods) |-> service.methods[i].proto_name]
\* client_methods: fn {name}(&self, input) { {Client}::{name}_inner(self.0.clone(), input) }
client_methods(service) ==
    [i \in 1..Len(service.methods) |->
        [name |-> service.methods[i].name, inner |-> service.methods[i].name]]
\* a variant of client_own_methods that gives every method the first descriptor
client_own_methods_first(service) ==
    [i \in 1..Len(service.methods) |->
        [inner |-> service.methods[i].name,
         descriptor |-> service.methods[1].proto_name,
         output_type |-> service.methods[i].output_type]]
\* client_own_methods: fn {name}_inner(handler, input)
\*     { ClientFuture::new(handler, input, {MethodDescriptor}::{proto_name}) }
client_own_methods(service) ==
    [i \in 1..Len(service.methods) |->
        [inner |-> service.methods[i].name,
         descriptor |-> service.methods[i].proto_name,
         output_type |-> service.methods[i].output_type]]
\* a variant of match_handle_methods whose loop stops one method early
match_handle_methods_skip(service) ==
    [i \in 1..(Len(service.methods) - 1) |->
        [case |-> service.methods[i].proto_name, name |-> service.methods[i].name]]
\* match_handle_methods: {MethodDescriptor}::{proto_name} => decode, service.{name}(i), encode
match_handle_methods(service) ==
    [i \in 1..Len(service.methods) |->
        [case |-> service.methods[i].proto_name, name |-> service.methods[i].name]]

\* the values of the closed type {Service}MethodDescriptor
MethodDescriptors(service) ==
    {enum_methods(service)[i] : i \in 1..Len(enum_methods(service))}
\* ServiceDescriptor::methods of the generated descriptor
methods(service) == list_enum_methods(service)

\* the entry of a fragment that a key selects (the first, as a match does)
Entry(frag, field, key) ==
    LET hits == {i \in 1..Len(frag) : frag[i][field] = key}
    IN  IF hits = {} THEN [none |-> TRUE]
        ELSE frag[CHOOSE i \in hits : \A j \in hits : i <= j]

(***************************************************************************)
(* The example services (business logic) and an arbitrary implementor.     *)
(* A business future is [outcome, ready]: futures::future::FutureResult is *)
(* ready at once; another implementor's future may be pending.             *)
(***************************************************************************)
Future(outcome, ready) == [outcome |-> outcome, ready |-> ready]
EchoService(fail) == [kind |-> "EchoService", fail |-> fail]
GreetingService(fh, fg) ==
    [kind |-> "GreetingService", fail_hello |-> fh, fail_goodbye |-> fg]
\* some other implementor of trait Echo: the environment decides its futures
AnyEcho == [kind |-> "AnyEcho"]
Services == {EchoService(f) : f \in BOOLEAN}
            \cup {GreetingService(fh, fg) : fh \in BOOLEAN, fg \in BOOLEAN}
            \cup {AnyEcho}
\* some fn(A, I) -> F handed to ServerFuture::new that is no trait method
AnyFn == [kind |-> "AnyFn"]
ServiceDecl(service) ==
    IF service.kind = "GreetingService" THEN GreetingDecl ELSE EchoDecl

\* "Hello, " and "Goodbye, " and "!"
HelloPrefix == <<72, 101, 108, 108, 111, 44, 32>>
GoodbyePrefix == <<71, 111, 111, 100, 98, 121, 101, 44, 32>>
Bang == <<33>>

\* EchoService::echo
echo(self, input) ==
    IF self.fail THEN Future(Err(BizError), TRUE)
    ELSE Future(Ok(Msg("EchoResponse", input.data)), TRUE)
\* GreetingService::say_hello
say_hello(self, input) ==
    IF self.fail_hello THEN Future(Err(BizError), TRUE)
    ELSE Future(Ok(Msg("SayHelloResponse", HelloPrefix \o input.data \o Bang)), TRUE)
\* GreetingService::say_goodbye
say_goodbye(self, input) ==
    IF self.fail_hello THEN Future(Err(BizError), TRUE)
    ELSE Future(Ok(Msg("SayGoodbyeResponse", GoodbyePrefix \o input.data \o Bang)), TRUE)
\* what an arbitrary implementor's method may return
AnyOutcomes(ot) ==
    {Ok(Msg(ot, d)) : d \in SeqsUpTo(DataBytes, 1)} \cup {Err(BizError)}
\* service.{name}(input): the futures the business method may return
Business(service, name, input) ==
    IF service.kind = "AnyEcho"
        THEN {Future(o, r) : o \in AnyOutcomes("EchoResponse"), r \in BOOLEAN}
    ELSE IF service.kind = "AnyFn"
        THEN {Future(o, r) : o \in AnyOutcomes("EchoResponse") \cup {Ok(Unrepresentable)},
                             r \in BOOLEAN}
    ELSE IF name = "echo" THEN {echo(service, input)}
    ELSE IF name = "say_hello" THEN {say_hello(service, input)}
    ELSE {say_goodbye(service, input)}
\* Future::poll of a business future
PollBusiness(f) ==
    IF ~f.ready THEN NotReady
    ELSE IF f.outcome.tag = "Ok" THEN Ready(f.outcome.val)
    ELSE Err(f.outcome.err)

(***************************************************************************)
(* Handlers.  Server(service) is the generated {Service}Server; Channel is *)
(* a Handler implemented outside the crate: a transport in front of a      *)
(* generated server, which may delay, garble or abandon a call; the byte   *)
(* strings it may put in place of a request or a reply have up to `noise`  *)
(* bytes.                                                                  *)
(***************************************************************************)
\* a field whose value was moved out, or is not there in this variant
Nil == [none |-> TRUE]
NoName == ""
\* {Service}Server::new
Server(service) == [kind |-> "Server", service |-> service]
Channel(service, noise) == [kind |-> "Channel", service |-> service, noise |-> noise]
Handlers == {Server(s) : s \in Services} \cup {Channel(s, MaxPayloadLen) : s \in Services}
HandlerDecl(handler) == ServiceDecl(handler.service)

\* the future a generated call_inner arm builds:
\*   result(decode(input)).and_then(|i| service.{name}(i).map_err(execution)).and_then(encode)
\* st is "Decoded" while the decoded input waits for the first poll,
\* "Executing" while the business future is in flight, "Done" afterwards.
BoxFuture(st, decoded, service, name, fut) ==
    [kind |-> "Box", st |-> st, decoded |-> decoded, service |-> service,
     name |-> name, fut |-> fut]
BoxDone == BoxFuture("Done", Nil, Nil, NoName, Nil)
NoMatch == [kind |-> "NoMatch"]

\* generated {Service}Server::call_inner: match method { ... }
call_inner(service, method, input) ==
    LET decl == ServiceDecl(service)
        arm == Entry(match_handle_methods(decl), "case", method)
    IN  IF arm = Nil THEN NoMatch
        ELSE LET sig == Entry(trait_methods(decl), "name", arm.name)
             IN  BoxFuture("Decoded", decode(input, sig.input_type), service, arm.name, Nil)

\* a variant of BoxExecute without the map_err: the business error as it is
BoxExecute_unmapped(f, bf) ==
    LET r == PollBusiness(bf) IN
    IF r.tag = "NotReady"
        THEN [fut |-> BoxFuture("Executing", Nil, Nil, f.name, bf), res |-> NotReady]
    ELSE IF r.tag = "Err" THEN [fut |-> BoxDone, res |-> Err(r.err)]
    ELSE LET b == encode(r.val) IN
         IF b.tag = "Err" THEN [fut |-> BoxDone, res |-> Err(b.err)]
         ELSE [fut |-> BoxDone, res |-> Ready(b.val)]
\* the poll of the business future inside the chain, then map_err and encode
BoxExecute(f, bf) ==
    LET r == PollBusiness(bf) IN
    IF r.tag = "NotReady"
        THEN [fut |-> BoxFuture("Executing", Nil, Nil, f.name, bf), res |-> NotReady]
    ELSE IF r.tag = "Err" THEN [fut |-> BoxDone, res |-> Err(execution(r.err))]
    ELSE LET b == encode(r.val) IN
         IF b.tag = "Err" THEN [fut |-> BoxDone, res |-> Err(b.err)]
         ELSE [fut |-> BoxDone, res |-> Ready(b.val)]

\* Future::poll of the boxed chain: the set of [fut, res] it may end in
PollBox(f) ==
    IF f.kind = "NoMatch" THEN {[fut |-> f, res |-> [tag |-> "UnknownMethod"]]}
    ELSE IF f.st = "Decoded" THEN
        IF f.decoded.tag = "Err" THEN {[fut |-> BoxDone, res |-> Err(f.decoded.err)]}
        ELSE {BoxExecute(f, bf) : bf \in Business(f.service, f.name, f.decoded.val)}
    ELSE IF f.st = "Executing" THEN {BoxExecute(f, f.fut)}
    ELSE {[fut |-> f, res |-> Panicked]}

\* what the transport does with one call
Fates(noise) ==
    {[do |-> "deliver"], [do |-> "cancel"]}
    \cup {[do |-> "garble_request", bytes |-> p] : p \in SeqsUpTo(PayloadBytes, noise)}
    \cup {[do |-> "garble_reply", bytes |-> p] : p \in SeqsUpTo(PayloadBytes, noise)}
ChannelFuture(ready, fate, inner) ==
    [kind |-> "Channel", ready |-> ready, fate |-> fate, inner |-> inner]

\* Handler::call of the generated server: call_inner(self.0.clone(), method, input)
ServerCall(handler, method, input) == {call_inner(handler.service, method, input)}
\* Handler::call of the transport
ChannelCall(handler, method, input) ==
    {ChannelFuture(r, fate,
        call_inner(handler.service, method,
                   IF fate.do = "garble_request" THEN fate.bytes ELSE input))
        : r \in BOOLEAN, fate \in Fates(handler.noise)}
\* handler.call(method, input): the in-flight operations it may return
HandlerCall(handler, method, input) ==
    IF handler.kind = "Server" THEN ServerCall(handler, method, input)
    ELSE ChannelCall(handler, method, input)

\* Future::poll of the transport's future; a dropped sender is futures::Canceled
PollChannel(f) ==
    IF ~f.ready THEN {[fut |-> f, res |-> NotReady]}
    ELSE IF f.fate.do = "cancel" THEN {[fut |-> f, res |-> Err(from_canceled)]}
    ELSE {[fut |-> [f EXCEPT !.inner = o.fut],
           res |-> IF o.res.tag = "Ready" /\ f.fate.do = "garble_reply"
                       THEN Ready(f.fate.bytes) ELSE o.res]
            : o \in PollBox(f.inner)}
\* H::CallFuture::poll
PollCallFuture(f) == IF f.kind = "Channel" THEN PollChannel(f) ELSE PollBox(f)

\* whether the operation waits for an outside event, and the event arriving
Pending(f) ==
    IF f.kind = "Channel" THEN ~f.ready \/ (f.inner.kind = "Box" /\ f.inner.st = "Executing" /\ ~f.inner.fut.ready)
    ELSE f.kind = "Box" /\ f.st = "Executing" /\ ~f.fut.ready
WakeBox(f) == [f EXCEPT !.fut.ready = TRUE]
WakeFuture(f) ==
    IF f.kind = "Channel"
        THEN IF ~f.ready THEN [f EXCEPT !.ready = TRUE]
             ELSE [f EXCEPT !.inner = WakeBox(f.inner)]
    ELSE WakeBox(f)

(***************************************************************************)
(* ClientFuture<H, I, O>                                                   *)
(***************************************************************************)
ClientFuture(st, input, handler, method, future, O) ==
    [st |-> st, input |-> input, handler |-> handler, method |-> method,
     future |-> future, O |-> O]
\* a variant of ClientFuture::new that seeds the future with a default input
ClientFuture_new_default(handler, input, method, O) ==
    ClientFuture("Encode", [input EXCEPT !.data = <<>>], handler, method, Nil, O)
\* ClientFuture::new
ClientFuture_new(handler, input, method, O) ==
    ClientFuture("Encode", input, handler, method, Nil, O)
\* the placeholder mem::replace leaves in self
ClientDone(O) == ClientFuture("Done", Nil, Nil, NoName, Nil, O)
\* one poll's outcome: the state left in self, what the poll returned, the
\* handler.call it made (or Nil), what its poll of the in-flight operation
\* returned (NoPoll if it made none), and whether self still holds that
\* operation afterwards
Outcome(self, res, call, inner, held) ==
    [self |-> self, res |-> res, call |-> call, inner |-> inner, held |-> held]

\* a variant of ClientCallArm that wraps a local decode error in Execution
ClientCallArm_wrapdecode(self, future) ==
    {IF o.res.tag = "Ready" THEN
         LET m == decode(o.res.val, self.O) IN
         Outcome(ClientDone(self.O),
                 IF m.tag = "Err" THEN Err(Execution(m.err)) ELSE Ready(m.val),
                 Nil, o.res, FALSE)
     ELSE IF o.res.tag = "NotReady" THEN
         Outcome(ClientFuture("Call", Nil, Nil, NoName, o.fut, self.O), NotReady, Nil, o.res, TRUE)
     ELSE IF o.res.tag = "Err" THEN
         Outcome(ClientDone(self.O), Err(Execution(o.res.err)), Nil, o.res, FALSE)
     ELSE Outcome(ClientDone(self.O), o.res, Nil, o.res, FALSE)
        : o \in PollCallFuture(future)}
\* a variant of ClientCallArm that hands the handler's codec errors on as its own
ClientCallArm_flatten(self, future) ==
    {IF o.res.tag = "Ready" THEN
         LET m == decode(o.res.val, self.O) IN
         Outcome(ClientDone(self.O),
                 IF m.tag = "Err" THEN Err(m.err) ELSE Ready(m.val), Nil, o.res, FALSE)
     ELSE IF o.res.tag = "NotReady" THEN
         Outcome(ClientFuture("Call", Nil, Nil, NoName, o.fut, self.O), NotReady, Nil, o.res, TRUE)
     ELSE IF o.res.tag = "Err" THEN
         Outcome(ClientDone(self.O),
                 IF o.res.err.variant \in {"Decode", "Encode"} THEN Err(o.res.err)
                 ELSE Err(Execution(o.res.err)), Nil, o.res, FALSE)
     ELSE Outcome(ClientDone(self.O), o.res, Nil, o.res, FALSE)
        : o \in PollCallFuture(future)}
\* a variant of ClientCallArm that treats the handler's cancellation as not ready
ClientCallArm_swallow(self, future) ==
    {IF o.res.tag = "Ready" THEN
         LET m == decode(o.res.val, self.O) IN
         Outcome(ClientDone(self.O),
                 IF m.tag = "Err" THEN Err(m.err) ELSE Ready(m.val), Nil, o.res, FALSE)
     ELSE IF o.res.tag = "NotReady" \/ (o.res.tag = "Err" /\ o.res.err = CanceledErr) THEN
         Outcome(ClientFuture("Call", Nil, Nil, NoName, o.fut, self.O), NotReady, Nil, o.res, TRUE)
     ELSE IF o.res.tag = "Err" THEN
         Outcome(ClientDone(self.O), Err(Execution(o.res.err)), Nil, o.res, FALSE)
     ELSE Outcome(ClientDone(self.O), o.res, Nil, o.res, FALSE)
        : o \in PollCallFuture(future)}
\* a variant of ClientCallArm that does not put the future back when it is
\* not ready: self stays the placeholder Done
ClientCallArm_forget(self, future) ==
    {IF o.res.tag = "Ready" THEN
         LET m == decode(o.res.val, self.O) IN
         Outcome(ClientDone(self.O),
                 IF m.tag = "Err" THEN Err(m.err) ELSE Ready(m.val), Nil, o.res, FALSE)
     ELSE IF o.res.tag = "NotReady" THEN
         Outcome(ClientDone(self.O), NotReady, Nil, o.res, FALSE)
     ELSE IF o.res.tag = "Err" THEN
         Outcome(ClientDone(self.O), Err(execution(o.res.err)), Nil, o.res, FALSE)
     ELSE Outcome(ClientDone(self.O), o.res, Nil, o.res, FALSE)
        : o \in PollCallFuture(future)}
\* a variant of ClientCallArm that answers an error of the handler with a
\* second handler.call of an empty request and stays in Call
ClientCallArm_retry(self, future) ==
    {IF o.res.tag = "Ready" THEN
         LET m == decode(o.res.val, self.O) IN
         Outcome(ClientDone(self.O),
                 IF m.tag = "Err" THEN Err(m.err) ELSE Ready(m.val), Nil, o.res, FALSE)
     ELSE IF o.res.tag = "NotReady" THEN
         Outcome(ClientFuture("Call", Nil, Nil, NoName, o.fut, self.O), NotReady, Nil, o.res, TRUE)
     ELSE IF o.res.tag = "Err" THEN
         Outcome(ClientFuture("Call", Nil, Nil, NoName, future, self.O), NotReady,
                 [method |-> "Echo", input |-> <<>>], o.res, TRUE)
     ELSE Outcome(ClientDone(self.O), o.res, Nil, o.res, FALSE)
        : o \in PollCallFuture(future)}
\* ClientFuture::poll, arm Call(future)
ClientCallArm(self, future) ==
    {IF o.res.tag = "Ready" THEN
         LET m == decode(o.res.val, self.O) IN
         Outcome(ClientDone(self.O),
                 IF m.tag = "Err" THEN Err(m.err) ELSE Ready(m.val), Nil, o.res, FALSE)
     ELSE IF o.res.tag = "NotReady" THEN
         Outcome(ClientFuture("Call", Nil, Nil, NoName, o.fut, self.O), NotReady, Nil, o.res, TRUE)
     ELSE IF o.res.tag = "Err" THEN
         Outcome(ClientDone(self.O), Err(execution(o.res.err)), Nil, o.res, FALSE)
     ELSE Outcome(ClientDone(self.O), o.res, Nil, o.res, FALSE)
        : o \in PollCallFuture(future)}

\* a variant of ClientEncodeArm that, when the input cannot be encoded, returns
\* the error and keeps the future as it was
ClientEncodeArm_keep(self) ==
    LET input_bytes == encode(self.input) IN
    IF input_bytes.tag = "Err"
        THEN {Outcome(self, Err(input_bytes.err), Nil, NoPoll, FALSE)}
    ELSE UNION {{[o EXCEPT !.call = [method |-> self.method, input |-> input_bytes.val]]
                    : o \in ClientCallArm(self, future)}
                : future \in HandlerCall(self.handler, self.method, input_bytes.val)}
\* a variant of ClientEncodeArm that returns to the scheduler right after
\* handler.call, before the operation was polled
ClientEncodeArm_yield(self) ==
    LET input_bytes == encode(self.input) IN
    IF input_bytes.tag = "Err"
        THEN {Outcome(ClientDone(self.O), Err(input_bytes.err), Nil, NoPoll, FALSE)}
    ELSE {Outcome(ClientFuture("Call", Nil, Nil, NoName, future, self.O), NotReady,
                  [method |-> self.method, input |-> input_bytes.val], NoPoll, TRUE)
            : future \in HandlerCall(self.handler, self.method, input_bytes.val)}
\* ClientFuture::poll, arm Encode(input, handler, method), and the loop's next turn
ClientEncodeArm(self) ==
    LET input_bytes == encode(self.input) IN
    IF input_bytes.tag = "Err"
        THEN {Outcome(ClientDone(self.O), Err(input_bytes.err), Nil, NoPoll, FALSE)}
    ELSE UNION {{[o EXCEPT !.call = [method |-> self.method, input |-> input_bytes.val]]
                    : o \in ClientCallArm(self, future)}
                : future \in HandlerCall(self.handler, self.method, input_bytes.val)}

\* a variant of ClientDoneArm that reports not ready instead of panicking
ClientDoneArm_stale(self) == {Outcome(ClientDone(self.O), NotReady, Nil, NoPoll, FALSE)}
\* ClientFuture::poll, arm Done: panic!("cannot poll a client future twice")
ClientDoneArm(self) == {Outcome(ClientDone(self.O), Panicked, Nil, NoPoll, FALSE)}

\* ClientFuture::poll
ClientPoll(self) ==
    IF self.st = "Encode" THEN ClientEncodeArm(self)
    ELSE IF self.st = "Call" THEN ClientCallArm(self, self.future)
    ELSE ClientDoneArm(self)

\* generated client method {name}: {Client}::{name}_inner(self.0.clone(), input)
client_method(handler, name, input) ==
    LET decl == HandlerDecl(handler)
        m == Entry(client_methods(decl), "name", name)
        own == Entry(client_own_methods(decl), "inner", m.inner)
    IN  ClientFuture_new(handler, input, own.descriptor, own.output_type)

(***************************************************************************)
(* ServerFuture<A, E, F, I, O>                                             *)
(***************************************************************************)
ServerFuture(st, bytes, handler, method, future) ==
    [st |-> st, bytes |-> bytes, handler |-> handler, method |-> method,
     future |-> future]
\* ServerFuture::new; method is the trait method (or other fn) to invoke
ServerFuture_new(input, handler, method) ==
    ServerFuture("Decode", input, handler, method, Nil)
ServerDone == ServerFuture("Done", <<>>, Nil, NoName, Nil)
\* the type I of the method's argument
InputType(handler, method) ==
    IF handler.kind = "AnyFn" THEN "EchoRequest"
    ELSE Entry(trait_methods(ServiceDecl(handler)), "name", method).input_type

\* a variant of ServerExecuteArm that unwraps the result of the business
\* future: an error of the business logic is a panic
ServerExecuteArm_unwrap(self, future) ==
    LET r == PollBusiness(future) IN
    IF r.tag = "Ready" THEN
        LET b == encode(r.val) IN
        Outcome(ServerDone, IF b.tag = "Err" THEN Err(b.err) ELSE Ready(b.val), Nil, r, FALSE)
    ELSE IF r.tag = "NotReady" THEN
        Outcome(ServerFuture("Execute", <<>>, Nil, NoName, future), NotReady, Nil, r, TRUE)
    ELSE Outcome(ServerDone, Panicked, Nil, r, FALSE)
\* a variant of ServerExecuteArm that, when the business future is still not
\* ready at a later poll, goes back to Decode with an empty request
ServerExecuteArm_rewind(self, future) ==
    LET r == PollBusiness(future) IN
    IF r.tag = "Ready" THEN
        LET b == encode(r.val) IN
        Outcome(ServerDone, IF b.tag = "Err" THEN Err(b.err) ELSE Ready(b.val), Nil, r, FALSE)
    ELSE IF r.tag = "NotReady" THEN
        IF self.st = "Execute"
        THEN Outcome(ServerFuture("Decode", <<>>, AnyFn, "echo", Nil), NotReady, Nil, r, FALSE)
        ELSE Outcome(ServerFuture("Execute", <<>>, Nil, NoName, future), NotReady, Nil, r, TRUE)
    ELSE Outcome(ServerDone, Err(Execution(r.err)), Nil, r, FALSE)
\* ServerFuture::poll, arm Execute(future)
ServerExecuteArm(self, future) ==
    LET r == PollBusiness(future) IN
    IF r.tag = "Ready" THEN
        LET b == encode(r.val) IN
        Outcome(ServerDone, IF b.tag = "Err" THEN Err(b.err) ELSE Ready(b.val), Nil, r, FALSE)
    ELSE IF r.tag = "NotReady" THEN
        Outcome(ServerFuture("Execute", <<>>, Nil, NoName, future), NotReady, Nil, r, TRUE)
    ELSE Outcome(ServerDone, Err(execution(r.err)), Nil, r, FALSE)

\* a variant of ServerDecodeArm that goes on with a default input when the
\* payload cannot be decoded
ServerDecodeArm_lenient(self) ==
    LET decoded == decode(self.bytes, InputType(self.handler, self.method))
        input == IF decoded.tag = "Err"
                    THEN Ok(Msg(InputType(self.handler, self.method), <<>>)) ELSE decoded
    IN  {[ServerExecuteArm(self, future) EXCEPT
              !.call = [method |-> self.method, input |-> input.val]]
            : future \in Business(self.handler, self.method, input.val)}
\* ServerFuture::poll, arm Decode(bytes, handler, method), and the loop's next turn
ServerDecodeArm(self) ==
    LET input == decode(self.bytes, InputType(self.handler, self.method)) IN
    IF input.tag = "Err" THEN {Outcome(ServerDone, Err(input.err), Nil, NoPoll, FALSE)}
    ELSE {[ServerExecuteArm(self, future) EXCEPT
              !.call = [method |-> self.method, input |-> input.val]]
            : future \in Business(self.handler, self.method, input.val)}

\* ServerFuture::poll, arm Done: panic!("cannot poll a server future twice")
ServerDoneArm(self) == {Outcome(ServerDone, Panicked, Nil, NoPoll, FALSE)}

\* ServerFuture::poll
ServerPoll(self) ==
    IF self.st = "Decode" THEN ServerDecodeArm(self)
    ELSE IF self.st = "Execute" THEN {ServerExecuteArm(self, self.future)}
    ELSE ServerDoneArm(self)

(***************************************************************************)
(* The state.  One future is driven per run, as tokio::run drives the one  *)
(* future of each test: either calls made through a client, or a           *)
(* ServerFuture polled directly.                                           *)
(***************************************************************************)
\* polls made of one future, the re-polls after completion included
MaxPolls == 3
CallIds == {1, 2}

VARIABLES
    client,     \* the handler inside the generated client, Nil before {Client}::new
    cf,         \* cf[id]: the ClientFuture of call id
    req,        \* req[id]: the client method called and its typed input
    cret,       \* cret[id]: what the last poll of cf[id] returned
    cpolls,     \* cpolls[id]: how often cf[id] was polled
    calls,      \* calls[id]: the handler.call invocations cf[id] made, in order
    delivered,  \* delivered[id]: the values and errors cf[id]'s polls returned
    ops,        \* ops[id]: the in-flight handler operation: whether cf[id] holds
                \* it, how often it was polled, and what its last poll returned
    sf,         \* the ServerFuture
    sret,       \* what the last poll of sf returned
    spolls,     \* how often sf was polled
    scalls,     \* the business method invocations sf made
    sdelivered, \* the values and errors sf's polls returned
    sop,        \* the in-flight business future, as ops
    codec,      \* a message on its way through encode and decode
    gen,        \* a run of the service generator: its input and its output buffer
    hc          \* a raw call made at a generated server: its arguments, the
                \* future call returned, and what the polls of it returned

cvars == <<client, cf, req, cret, cpolls, calls, delivered, ops>>
svars == <<sf, sret, spolls, scalls, sdelivered, sop>>
ovars == <<codec, gen, hc>>
vars == <<client, cf, req, cret, cpolls, calls, delivered, ops,
          sf, sret, spolls, scalls, sdelivered, sop, codec, gen, hc>>

Unborn == ClientFuture("Unborn", Nil, Nil, NoName, Nil, NoName)
Dropped == ClientFuture("Dropped", Nil, Nil, NoName, Nil, NoName)
SUnborn == ServerFuture("Unborn", <<>>, Nil, NoName, Nil)
SDropped == ServerFuture("Dropped", <<>>, Nil, NoName, Nil)
NoOp == [live |-> FALSE, polls |-> 0, last |-> NoPoll]
\* no message in the codec, no generator run
NoCodec == [st |-> "None"]
NoGen == [st |-> "None"]
NoCall == [st |-> "None"]
Exists(f) == f.st \notin {"Unborn", "Dropped"}

\* no client, no call, no ServerFuture yet
InitFutures ==
    /\ client = Nil
    /\ cf = [id \in CallIds |-> Unborn]
    /\ req = [id \in CallIds |-> Nil]
    /\ cret = [id \in CallIds |-> NoPoll]
    /\ cpolls = [id \in CallIds |-> 0]
    /\ calls = [id \in CallIds |-> <<>>]
    /\ delivered = [id \in CallIds |-> <<>>]
    /\ ops = [id \in CallIds |-> NoOp]
    /\ sf = SUnborn
    /\ sret = NoPoll
    /\ spolls = 0
    /\ scalls = <<>>
    /\ sdelivered = <<>>
    /\ sop = NoOp
Init ==
    /\ InitFutures
    /\ codec = NoCodec
    /\ gen = NoGen
    /\ hc = NoCall

\* the typed requests the environment passes to method `name`
TypedInputs(decl, name) ==
    LET t == Entry(trait_methods(decl), "name", name).input_type
    IN  {Msg(t, d) : d \in IF t \in StringTypes THEN Names ELSE Datas}
MethodNames(decl) == {decl.methods[i].name : i \in 1..Len(decl.methods)}

\* the record of what a poll returned: only values and errors are results
Deliver(log, res) == IF res.tag \in {"Ready", "Err"} THEN Append(log, res) ELSE log
\* the ledger of the in-flight operation after a poll
Ledger(op, o) ==
    IF o.inner = NoPoll THEN [op EXCEPT !.live = o.held]
    ELSE [live |-> o.held, polls |-> op.polls + 1, last |-> o.inner]
\* a variant of DropGlue that leaves the in-flight operation behind
DropGlue_leak(op) == op
\* dropping a future drops the fields of its current variant with it
DropGlue(op) == [op EXCEPT !.live = FALSE]

\* let client = {Service}Client::new({Service}Server::new(service)), or over a transport
ClientNew(handler) ==
    /\ client = Nil
    /\ client' = handler
    /\ UNCHANGED <<cf, req, cret, cpolls, calls, delivered, ops>>
    /\ UNCHANGED <<svars, ovars>>

\* client.{name}(input)
ClientMethod(id, name, input) ==
    /\ client # Nil
    /\ cf[id] = Unborn
    /\ cf' = [cf EXCEPT ![id] = client_method(client, name, input)]
    /\ req' = [req EXCEPT ![id] = [name |-> name, input |-> input]]
    /\ UNCHANGED <<client, cret, cpolls, calls, delivered, ops>>
    /\ UNCHANGED <<svars, ovars>>

\* ClientFuture::new(handler, input, method) with a message type of the caller's
ClientFutureNew(id, method, input) ==
    /\ client # Nil
    /\ cf[id] = Unborn
    /\ cf' = [cf EXCEPT ![id] = ClientFuture_new(client, input, method, "EchoResponse")]
    /\ req' = [req EXCEPT ![id] = [name |-> NoName, input |-> input]]
    /\ UNCHANGED <<client, cret, cpolls, calls, delivered, ops>>
    /\ UNCHANGED <<svars, ovars>>

\* a variant of PollClient in which the calls of one client share a state
\* machine: the state a poll leaves is written to every call in the same state
PollClient_shared(id) ==
    /\ Exists(cf[id])
    /\ cpolls[id] < MaxPolls
    /\ \E o \in ClientPoll(cf[id]) :
        /\ cf' = [j \in CallIds |->
                    IF j = id \/ cf[j].st = cf[id].st THEN o.self ELSE cf[j]]
        /\ cret' = [cret EXCEPT ![id] = o.res]
        /\ calls' = [calls EXCEPT ![id] = IF o.call = Nil THEN @ ELSE Append(@, o.call)]
        /\ delivered' = [delivered EXCEPT ![id] = Deliver(@, o.res)]
        /\ ops' = [ops EXCEPT ![id] = Ledger(@, o)]
    /\ cpolls' = [cpolls EXCEPT ![id] = @ + 1]
    /\ UNCHANGED <<client, req>>
    /\ UNCHANGED <<svars, ovars>>

\* cf[id].poll()
PollClient(id) ==
    /\ Exists(cf[id])
    /\ cpolls[id] < MaxPolls
    /\ \E o \in ClientPoll(cf[id]) :
        /\ cf' = [cf EXCEPT ![id] = o.self]
        /\ cret' = [cret EXCEPT ![id] = o.res]
        /\ calls' = [calls EXCEPT ![id] = IF o.call = Nil THEN @ ELSE Append(@, o.call)]
        /\ delivered' = [delivered EXCEPT ![id] = Deliver(@, o.res)]
        /\ ops' = [ops EXCEPT ![id] = Ledger(@, o)]
    /\ cpolls' = [cpolls EXCEPT ![id] = @ + 1]
    /\ UNCHANGED <<client, req>>
    /\ UNCHANGED <<svars, ovars>>

\* the event the in-flight operation of cf[id] waits for
WakeClient(id) ==
    /\ cf[id].st = "Call"
    /\ Pending(cf[id].future)
    /\ cf' = [cf EXCEPT ![id].future = WakeFuture(@)]
    /\ UNCHANGED <<client, req, cret, cpolls, calls, delivered, ops>>
    /\ UNCHANGED <<svars, ovars>>

\* drop(cf[id])
DropClient(id) ==
    /\ Exists(cf[id])
    /\ cf' = [cf EXCEPT ![id] = Dropped]
    /\ ops' = [ops EXCEPT ![id] = DropGlue(@)]
    /\ UNCHANGED <<client, req, cret, cpolls, calls, delivered>>
    /\ UNCHANGED <<svars, ovars>>

\* ServerFuture::new(input, service, method)
ServerFutureNew(input, service, method) ==
    /\ sf = SUnborn
    /\ sf' = ServerFuture_new(input, service, method)
    /\ UNCHANGED <<sret, spolls, scalls, sdelivered, sop>>
    /\ UNCHANGED <<cvars, ovars>>

\* sf.poll()
PollServer ==
    /\ Exists(sf)
    /\ spolls < MaxPolls
    /\ \E o \in ServerPoll(sf) :
        /\ sf' = o.self
        /\ sret' = o.res
        /\ scalls' = IF o.call = Nil THEN scalls ELSE Append(scalls, o.call)
        /\ sdelivered' = Deliver(sdelivered, o.res)
        /\ sop' = Ledger(sop, o)
    /\ spolls' = spolls + 1
    /\ UNCHANGED <<cvars, ovars>>

\* the event the business future of sf waits for
WakeServer ==
    /\ sf.st = "Execute"
    /\ ~sf.future.ready
    /\ sf' = [sf EXCEPT !.future.ready = TRUE]
    /\ UNCHANGED <<sret, spolls, scalls, sdelivered, sop>>
    /\ UNCHANGED <<cvars, ovars>>

\* drop(sf)
DropServer ==
    /\ Exists(sf)
    /\ sf' = SDropped
    /\ sop' = DropGlue(sop)
    /\ UNCHANGED <<sret, spolls, scalls, sdelivered>>
    /\ UNCHANGED <<cvars, ovars>>

\* the service the client was generated for
ClientDecls == IF client = Nil THEN {} ELSE {HandlerDecl(client)}

(***************************************************************************)
(* Spec: one future per run, as tokio::run drives the one future of each   *)
(* test: either call 1 made through a client, or a ServerFuture polled     *)
(* directly; the inputs range over all the bounded sets.                   *)
(***************************************************************************)
Handlers1 == IF sf = SUnborn THEN Handlers ELSE {}
ServerInputs == IF client = Nil /\ sf = SUnborn THEN RawPayloads ELSE {}

Next ==
    \/ \E handler \in Handlers1 : ClientNew(handler)
    \/ \E decl \in ClientDecls : \E name \in MethodNames(decl) :
         \E input \in TypedInputs(decl, name) : ClientMethod(1, name, input)
    \/ \E decl \in ClientDecls : \E method \in MethodDescriptors(decl) :
         ClientFutureNew(1, method, Unrepresentable)
    \/ PollClient(1)
    \/ WakeClient(1)
    \/ DropClient(1)
    \/ \E input \in ServerInputs : \E service \in Services \cup {AnyFn} :
         \E method \in MethodNames(ServiceDecl(service)) :
            ServerFutureNew(input, service, method)
    \/ PollServer
    \/ WakeServer
    \/ DropServer

Spec == Init /\ [][Next]_vars

(***************************************************************************)
(* SpecPair: a ClientFuture and a ServerFuture alive in the same run,      *)
(* polled in any interleaving; the inputs are a sample that reaches every  *)
(* arm of both polls.                                                      *)
(***************************************************************************)
PairHandlers == {Server(EchoService(TRUE)), Channel(AnyEcho, 1)}
PairInputs == {Msg("EchoRequest", <<1>>)}
PairPayloads == {<<>>, <<1>>}

NextPair ==
    \/ \E handler \in PairHandlers : ClientNew(handler)
    \/ \E input \in PairInputs : ClientMethod(1, "echo", input)
    \/ ClientFutureNew(1, "Echo", Unrepresentable)
    \/ PollClient(1)
    \/ WakeClient(1)
    \/ DropClient(1)
    \/ \E input \in PairPayloads : ServerFutureNew(input, AnyFn, "echo")
    \/ PollServer
    \/ WakeServer
    \/ DropServer

SpecPair == Init /\ [][NextPair]_vars

(***************************************************************************)
(* SpecCalls: two calls made through one generated client, created and     *)
(* polled in any interleaving.  The client is built over a generated       *)
(* server, or over a transport whose noise is one byte.                    *)
(***************************************************************************)
CallsHandlers ==
    {Server(s) : s \in Services \ {AnyEcho}} \cup {Channel(EchoService(FALSE), 1)}
\* the requests of the example's main and tests, and the empty one
CallsInputs(decl, name) ==
    {m \in TypedInputs(decl, name) : m.data \in {<<>>, TestData, TestName}}

NextCalls ==
    \/ \E handler \in CallsHandlers : ClientNew(handler)
    \/ \E id \in CallIds : \E decl \in ClientDecls : \E name \in MethodNames(decl) :
         \E input \in CallsInputs(decl, name) : ClientMethod(id, name, input)
    \/ \E id \in CallIds : \E decl \in ClientDecls : \E method \in MethodDescriptors(decl) :
         ClientFutureNew(id, method, Unrepresentable)
    \/ \E id \in CallIds : PollClient(id)
    \/ \E id \in CallIds : WakeClient(id)
    \/ \E id \in CallIds : DropClient(id)

SpecCalls == Init /\ [][NextCalls]_vars

(***************************************************************************)
(* SpecCodec: __rt::encode and __rt::decode on their own.  A run starts    *)
(* with a typed message, which is encoded and decoded again, or with bytes *)
(* from the wire, which are decoded into a message first.                  *)
(***************************************************************************)
\* the message types of the example schemas, and their values
MessageTypes == BytesTypes \cup StringTypes
Messages ==
    {Msg(t, d) : t \in BytesTypes, d \in Datas} \cup {Msg(t, d) : t \in StringTypes, d \in Names}
InitCodec ==
    /\ InitFutures
    /\ gen = NoGen
    /\ hc = NoCall
    /\ codec \in {[st |-> "Message", msg |-> m] : m \in Messages \cup {Unrepresentable}}
                \cup {[st |-> "Wire", buf |-> b, type |-> t]
                        : b \in RawPayloads, t \in MessageTypes}

\* decode::<_, M, _>(buf) of bytes from the wire
CodecReceive ==
    /\ codec.st = "Wire"
    /\ LET m == decode(codec.buf, codec.type) IN
        codec' = IF m.tag = "Ok" THEN [st |-> "Message", msg |-> m.val]
                 ELSE [st |-> "Rejected", buf |-> codec.buf, type |-> codec.type]
    /\ UNCHANGED <<cvars, svars, gen, hc>>
\* encode(message)
CodecEncode ==
    /\ codec.st = "Message"
    /\ codec' = [st |-> "Encoded", msg |-> codec.msg, buf |-> encode(codec.msg)]
    /\ UNCHANGED <<cvars, svars, gen, hc>>
\* decode::<_, M, _>(buf) of the bytes encode returned, M the message's type
CodecDecode ==
    /\ codec.st = "Encoded"
    /\ codec.buf.tag = "Ok"
    /\ codec' = [st |-> "Decoded", msg |-> codec.msg, buf |-> codec.buf,
                 back |-> decode(codec.buf.val, codec.msg.type)]
    /\ UNCHANGED <<cvars, svars, gen, hc>>

NextCodec == CodecReceive \/ CodecEncode \/ CodecDecode
SpecCodec == InitCodec /\ [][NextCodec]_vars

(***************************************************************************)
(* SpecGen: prost_build hands the services of the compiled files to        *)
(* ServiceGenerator::generate one after the other, with one output buffer. *)
(* The declarations are those of the example with any streaming flags.     *)
(***************************************************************************)
MaxServices == 2
\* decl with the streaming flags of its methods set as cs and ss say
WithStreaming(decl, cs, ss) ==
    [decl EXCEPT !.methods =
        [i \in 1..Len(decl.methods) |->
            [decl.methods[i] EXCEPT !.client_streaming = cs[i], !.server_streaming = ss[i]]]]
GenDecls ==
    UNION {{WithStreaming(decl, cs, ss) :
                cs \in [1..Len(decl.methods) -> BOOLEAN],
                ss \in [1..Len(decl.methods) -> BOOLEAN]} : decl \in Decls}

\* what generate writes into buf for a service: the template with its fragments
Emitted(service) ==
    [service |-> service.name,
     trait_methods |-> trait_methods(service),
     enum_methods |-> enum_methods(service),
     list_enum_methods |-> list_enum_methods(service),
     client_methods |-> client_methods(service),
     client_own_methods |-> client_own_methods(service),
     match_handle_methods |-> match_handle_methods(service)]
\* the two assert!s at the head of the loop body: the first method they stop at
\* (0 if none)
RECURSIVE FirstRejected(_, _)
FirstRejected(service, i) ==
    IF i > Len(service.methods) THEN 0
    ELSE IF service.methods[i].client_streaming \/ service.methods[i].server_streaming THEN i
    ELSE FirstRejected(service, i + 1)
\* a variant of generate that writes the service's header into buf before the loop
generate_header_first(service, buf) ==
    IF FirstRejected(service, 1) # 0
        THEN [panicked |-> TRUE, buf |-> Append(buf, [Emitted(service) EXCEPT
                !.trait_methods = <<>>, !.enum_methods = <<>>, !.list_enum_methods = <<>>,
                !.client_methods = <<>>, !.client_own_methods = <<>>,
                !.match_handle_methods = <<>>])]
    ELSE [panicked |-> FALSE, buf |-> Append(buf, Emitted(service))]
\* ServiceGenerator::generate(service, buf): the loop fills local fragments,
\* and buf is written only after it
generate(service, buf) ==
    IF FirstRejected(service, 1) # 0 THEN [panicked |-> TRUE, buf |-> buf]
    ELSE [panicked |-> FALSE, buf |-> Append(buf, Emitted(service))]

InitGen ==
    /\ InitFutures
    /\ codec = NoCodec
    /\ hc = NoCall
    /\ gen \in {[st |-> "Running", todo |-> t, buf |-> <<>>]
                    : t \in SeqsUpTo(GenDecls, MaxServices)}
\* generator.generate(service, &mut buf) for the next service
Generate ==
    /\ gen.st = "Running"
    /\ gen.todo # <<>>
    /\ LET r == generate(Head(gen.todo), gen.buf) IN
        gen' = IF r.panicked THEN [st |-> "Failed", todo |-> gen.todo, buf |-> r.buf]
               ELSE [st |-> "Running", todo |-> Tail(gen.todo), buf |-> r.buf]
    /\ UNCHANGED <<cvars, svars, codec, hc>>

NextGen == Generate
SpecGen == InitGen /\ [][NextGen]_vars

(***************************************************************************)
(* SpecServer: one raw call served twice: by the generated server's        *)
(* Handler::call, and by a ServerFuture built over the same service,       *)
(* method and payload.  The two futures are polled in any interleaving.    *)
(***************************************************************************)
\* server.call(method, payload) and ServerFuture::new(payload, service, {Service}::{name})
ServeBoth(service, name, payload) ==
    /\ hc = NoCall
    /\ sf = SUnborn
    /\ sf' = ServerFuture_new(payload, service, name)
    /\ LET method == Entry(match_handle_methods(ServiceDecl(service)), "name", name).case IN
        \E fut \in ServerCall(Server(service), method, payload) :
            hc' = [st |-> "Live", service |-> service, name |-> name, method |-> method,
                   payload |-> payload, fut |-> fut, ret |-> NoPoll, polls |-> 0,
                   delivered |-> <<>>]
    /\ UNCHANGED <<sret, spolls, scalls, sdelivered, sop>>
    /\ UNCHANGED <<cvars, codec, gen>>
\* hc.fut.poll()
PollServerCall ==
    /\ hc.st = "Live"
    /\ hc.polls < MaxPolls
    /\ \E o \in PollCallFuture(hc.fut) :
        hc' = [hc EXCEPT !.fut = o.fut, !.ret = o.res, !.polls = @ + 1,
                         !.delivered = Deliver(@, o.res)]
    /\ UNCHANGED <<cvars, svars, codec, gen>>
\* the event the business future inside hc.fut waits for
WakeServerCall ==
    /\ hc.st = "Live"
    /\ Pending(hc.fut)
    /\ hc' = [hc EXCEPT !.fut = WakeFuture(@)]
    /\ UNCHANGED <<cvars, svars, codec, gen>>

ServePayloads == IF hc = NoCall THEN RawPayloads ELSE {}
NextServer ==
    \/ \E payload \in ServePayloads : \E service \in Services :
         \E name \in MethodNames(ServiceDecl(service)) : ServeBoth(service, name, payload)
    \/ PollServerCall
    \/ WakeServerCall
    \/ PollServer
    \/ WakeServer
SpecServer == Init /\ [][NextServer]_vars

(***************************************************************************)
(* SpecLive: one call under a scheduler.  The task that owns the future is *)
(* polled when it is spawned and again whenever the operation it waits for *)
(* has notified it, until the future completes; the call is not dropped.   *)
(* Fairness: the scheduler does poll a task that is ready to run, and the  *)
(* event a pending operation waits for does arrive.                        *)
(***************************************************************************)
\* the scheduler polls call id: it is live and not waiting for its operation
PollScheduled(id) ==
    /\ cf[id].st \in {"Encode", "Call"}
    /\ ~(cf[id].st = "Call" /\ Pending(cf[id].future))
    /\ PollClient(id)

\* a server and a transport in front of it, over an implementor whose futures
\* may be pending, and over the failing example service
LiveHandlers ==
    {Server(AnyEcho), Channel(AnyEcho, 1), Server(EchoService(TRUE)),
     Channel(EchoService(FALSE), 1)}
LiveInputs == {Msg("EchoRequest", <<>>), Msg("EchoRequest", TestData)}
NextLive ==
    \/ \E handler \in LiveHandlers : ClientNew(handler)
    \/ \E input \in LiveInputs : ClientMethod(1, "echo", input)
    \/ ClientFutureNew(1, "Echo", Unrepresentable)
    \/ PollScheduled(1)
    \/ WakeClient(1)
SpecLive ==
    Init /\ [][NextLive]_vars /\ WF_vars(PollScheduled(1)) /\ WF_vars(WakeClient(1))

(***************************************************************************)
(* Properties                                                              *)
(***************************************************************************)
\* call id was made through a generated client method and polled
Typed(id) == req[id] # Nil /\ req[id].name # NoName
Polled(id) == cpolls[id] >= 1
OverServer == client # Nil /\ client.kind = "Server"
\* what the business method of the client's service does with call id's request
BusinessOf(id) == Business(client.service, req[id].name, req[id].input)
Hello(name) == Msg("SayHelloResponse", HelloPrefix \o name \o Bang)
Goodbye(name) == Msg("SayGoodbyeResponse", GoodbyePrefix \o name \o Bang)
\* "Hello, dflemstr!" and "Goodbye, dflemstr!"
HelloDflemstr ==
    <<72, 101, 108, 108, 111, 44, 32, 100, 102, 108, 101, 109, 115, 116, 114, 33>>
GoodbyeDflemstr ==
    <<71, 111, 111, 100, 98, 121, 101, 44, 32, 100, 102, 108, 101, 109, 115, 116, 114, 33>>

\* C1: when the business logic fails with e, a call through a generated
\* client over a generated server (two layers) completes with
\* Execution(Execution(e)) and delivers no response value; one layer (a
\* ServerFuture around the business method) completes with Execution(e).
\* Whatever the handler, an error whose innermost error is the business
\* error is nested exactly two deep at the client and one deep at the
\* ServerFuture.
C1_ErrorNestingDepth ==
    /\ \A id \in CallIds :
        /\ (OverServer /\ client.service.kind # "AnyEcho" /\ Typed(id) /\ Polled(id))
            => \A b \in BusinessOf(id) :
                 b.outcome.tag = "Err"
                    => delivered[id] = <<Err(Execution(Execution(b.outcome.err)))>>
        /\ \A k \in 1..Len(delivered[id]) :
             (delivered[id][k].tag = "Err" /\ Innermost(delivered[id][k].err) = BizError)
                => /\ ExecutionDepth(delivered[id][k].err) = 2
                   /\ Len(delivered[id]) = 1
    /\ \A k \in 1..Len(sdelivered) :
         (sdelivered[k].tag = "Err" /\ Innermost(sdelivered[k].err) = BizError)
            => sdelivered[k].err = Execution(BizError)
\* the echo_fail test: EchoService { fail: true }, data vec![1, 2, 3]
C1_Witness ==
    /\ client = Server(EchoService(TRUE))
    /\ req[1] = [name |-> "echo", input |-> Msg("EchoRequest", TestData)]
    /\ cret[1] = Err(Execution(Execution(BizError)))
    /\ delivered[1] = <<Err(Execution(Execution(BizError)))>>

\* C2: a call through a generated client over a generated server whose
\* business method succeeds on the request completes with exactly the
\* value the business method produced, and with no error.
C2_Passthrough ==
    \A id \in CallIds :
        (OverServer /\ client.service.kind # "AnyEcho" /\ Typed(id) /\ Polled(id))
            => \A b \in BusinessOf(id) :
                 b.outcome.tag = "Ok" => delivered[id] = <<Ready(b.outcome.val)>>
\* the echo_success test: EchoService { fail: false }, data vec![1, 2, 3]
C2_Witness ==
    /\ client = Server(EchoService(FALSE))
    /\ req[1] = [name |-> "echo", input |-> Msg("EchoRequest", TestData)]
    /\ cret[1] = Ready(Msg("EchoResponse", TestData))
    /\ delivered[1] = <<Ready(Msg("EchoResponse", TestData))>>

\* C3: a poll of a ClientFuture or a ServerFuture that is in Done panics: it
\* returns no value, no error and no NotReady, delivers nothing, and leaves
\* the future in Done.
C3_NonReentrant ==
    [][/\ \A id \in CallIds :
            (cf[id].st = "Done" /\ cpolls'[id] # cpolls[id])
                => /\ cret'[id] = Panicked
                   /\ delivered'[id] = delivered[id]
                   /\ cf'[id].st = "Done"
       /\ (sf.st = "Done" /\ spolls' # spolls)
            => /\ sret' = Panicked
               /\ sdelivered' = sdelivered
               /\ sf'.st = "Done"]_vars
\* both futures were polled again after they had completed
C3_Witness ==
    /\ cf[1].st = "Done" /\ Len(delivered[1]) = 1 /\ cret[1] = Panicked
    /\ sf.st = "Done" /\ Len(sdelivered) = 1 /\ sret = Panicked

\* C4: a codec error that occurs in the ClientFuture itself is not wrapped:
\* when encoding the input fails the call completes with Encode (and the
\* handler is never called), and when decoding the bytes the handler's
\* operation returned fails the call completes with Decode.
C4_LocalCodecErrors ==
    \A id \in CallIds :
        /\ (req[id] # Nil /\ encode(req[id].input).tag = "Err" /\ Polled(id))
            => /\ delivered[id] = <<Err(EncodeErr)>>
               /\ calls[id] = <<>>
        /\ (cf[id].st = "Done" /\ ops[id].last.tag = "Ready"
                /\ decode(ops[id].last.val, cf[id].O).tag = "Err")
            => delivered[id] = <<Err(DecodeErr)>>
\* call 1 failed to encode its input, call 2 failed to decode the reply
C4_Witness ==
    /\ req[1] # Nil /\ req[1].input = Unrepresentable
    /\ delivered[1] = <<Err(EncodeErr)>>
    /\ cf[2].st = "Done" /\ ops[2].last.tag = "Ready"
    /\ decode(ops[2].last.val, cf[2].O).tag = "Err"
    /\ delivered[2] = <<Err(DecodeErr)>>

\* C5: every error the handler's in-flight operation returns, whatever its
\* variant, is surfaced by the ClientFuture as Execution of that whole
\* error value.
C5_HandlerErrorsWrapped ==
    \A id \in CallIds :
        ops[id].last.tag = "Err"
            => delivered[id] = <<Err(Execution(ops[id].last.err))>>
\* the server behind a transport failed to decode the request it was handed
C5_Witness ==
    /\ client # Nil /\ client.kind = "Channel"
    /\ ops[1].last = Err(DecodeErr)
    /\ cret[1] = Err(Execution(DecodeErr))

\* C6 as stated: a cancellation of the handler's in-flight operation
\* surfaces from the call as the Canceled variant.
C6_Original ==
    \A id \in CallIds :
        ops[id].last = Err(CanceledErr)
            => /\ Len(delivered[id]) = 1
               /\ delivered[id][1].tag = "Err"
               /\ delivered[id][1].err.variant = "Canceled"
\* C6, amended: a cancellation of the handler's in-flight operation is not
\* swallowed: the call completes at that poll with an error, which is
\* Execution wrapping the handler's Canceled error.
C6_CanceledSurfacesWrapped ==
    \A id \in CallIds :
        ops[id].last = Err(CanceledErr)
            => /\ cf[id].st \in {"Done", "Dropped"}
               /\ ~ops[id].live
               /\ delivered[id] = <<Err(Execution(CanceledErr))>>
C6_Witness ==
    /\ ops[1].last = Err(CanceledErr)
    /\ cf[1].st = "Done"
    /\ cret[1] = Err(Execution(CanceledErr))

\* C7: between polls the state of a ClientFuture only moves forward through
\* Encode, Call, Done and that of a ServerFuture through Decode, Execute,
\* Done.
Rank(st) ==
    IF st \in {"Encode", "Decode"} THEN 1
    ELSE IF st \in {"Call", "Execute"} THEN 2
    ELSE IF st = "Done" THEN 3
    ELSE 0
C7_StateMonotonic ==
    [][/\ \A id \in CallIds :
            (Exists(cf[id]) /\ Exists(cf'[id])) => Rank(cf'[id].st) >= Rank(cf[id].st)
       /\ (Exists(sf) /\ Exists(sf')) => Rank(sf'.st) >= Rank(sf.st)]_vars
\* both futures went through their middle state and reached Done
C7_Witness ==
    /\ cf[1].st = "Done" /\ ops[1].polls >= 2
    /\ sf.st = "Done" /\ sop.polls >= 2

\* C8: methods() lists every declared method descriptor exactly once, and
\* the generated server's call has an arm for each of them: a call of any
\* listed method produces a response or an Error, never "unknown method".
C8_ExhaustiveDispatch ==
    /\ \A decl \in Decls :
        /\ \A m \in MethodDescriptors(decl) :
             Cardinality({i \in 1..Len(methods(decl)) : methods(decl)[i] = m}) = 1
        /\ \A i \in 1..Len(methods(decl)) : methods(decl)[i] \in MethodDescriptors(decl)
        /\ \A i \in 1..Len(decl.methods) :
             decl.methods[i].proto_name \in MethodDescriptors(decl)
    /\ \A id \in CallIds :
        /\ cret[id].tag # "UnknownMethod"
        /\ ops[id].last.tag # "UnknownMethod"
        /\ (OverServer /\ calls[id] # <<>>)
            => /\ \E i \in 1..Len(methods(HandlerDecl(client))) :
                    methods(HandlerDecl(client))[i] = calls[id][1].method
               /\ Len(delivered[id]) = 1
\* both methods of the Greeting service were dispatched and answered
C8_Witness ==
    /\ OverServer /\ client.service.kind = "GreetingService"
    /\ calls[1] # <<>> /\ calls[1][1].method = "SayHello" /\ Len(delivered[1]) = 1
    /\ calls[2] # <<>> /\ calls[2][1].method = "SayGoodbye" /\ Len(delivered[2]) = 1

\* C9: a generated client method calls the handler with its own method
\* descriptor; through a Greeting server with neither failure flag set,
\* say_hello(name) yields "Hello, <name>!" and say_goodbye(name) yields
\* "Goodbye, <name>!".
C9_MethodRouting ==
    \A id \in CallIds :
        /\ (Typed(id) /\ calls[id] # <<>>)
            => \E i \in 1..Len(HandlerDecl(client).methods) :
                 /\ HandlerDecl(client).methods[i].name = req[id].name
                 /\ HandlerDecl(client).methods[i].proto_name = calls[id][1].method
        /\ (client = Server(GreetingService(FALSE, FALSE)) /\ Typed(id) /\ Polled(id))
            => /\ req[id].name = "say_hello"
                    => delivered[id] = <<Ready(Hello(req[id].input.data))>>
               /\ req[id].name = "say_goodbye"
                    => delivered[id] = <<Ready(Goodbye(req[id].input.data))>>
\* SayHello("dflemstr") and SayGoodbye("dflemstr") through one client
C9_Witness ==
    /\ client = Server(GreetingService(FALSE, FALSE))
    /\ req[1] = [name |-> "say_hello", input |-> Msg("SayHelloRequest", TestName)]
    /\ cret[1] = Ready(Msg("SayHelloResponse", HelloDflemstr))
    /\ req[2] = [name |-> "say_goodbye", input |-> Msg("SayGoodbyeRequest", TestName)]
    /\ cret[2] = Ready(Msg("SayGoodbyeResponse", GoodbyeDflemstr))

\* C10: a ClientFuture dropped in Encode or Call has delivered no result and
\* releases the in-flight operation it holds; after the drop no result is
\* delivered and the operation is not polled again.
C10_CancellationByDrop ==
    [][\A id \in CallIds :
        /\ (cf[id].st \in {"Encode", "Call"} /\ cf'[id].st = "Dropped")
            => /\ delivered'[id] = <<>>
               /\ ~ops'[id].live
        /\ cf[id].st = "Dropped"
            => /\ cf'[id].st = "Dropped"
               /\ delivered'[id] = delivered[id]
               /\ cret'[id] = cret[id]
               /\ ops'[id] = ops[id]]_vars
\* the call was dropped while its handler operation was in flight
C10_Witness ==
    /\ cf[1].st = "Dropped"
    /\ ops[1].polls >= 1 /\ ops[1].last = NotReady /\ ~ops[1].live
    /\ calls[1] # <<>> /\ delivered[1] = <<>>

\* a ClientFuture before and after the event its in-flight operation waits for
Woken(self) ==
    {self} \cup {[self EXCEPT !.future = WakeFuture(@)] :
                    x \in {y \in {self} : y.st = "Call" /\ Pending(y.future)}}
\* the results a ClientFuture can complete with when it is the only call:
\* polled up to n times, with any of the events it waits for in between
RECURSIVE Completions(_, _)
Completions(self, n) ==
    IF n = 0 THEN {}
    ELSE UNION {IF o.res.tag \in {"Ready", "Err"} THEN {o.res}
                ELSE IF o.res.tag = "NotReady"
                    THEN UNION {Completions(w, n - 1) : w \in Woken(o.self)}
                ELSE {}
                    : o \in ClientPoll(self)}
\* the results call id can complete with when it runs alone
Alone(id) ==
    Completions(client_method(client, req[id].name, req[id].input), MaxPolls)

\* C11: when several calls are made through one client and polled in any
\* interleaving, each call completes with a result it produces when it runs
\* alone; behind a generated server that is one result, a function of the
\* call's own request, whatever the other call's input, failure or drop.
C11_IndependentCalls ==
    [][\A id \in CallIds :
        (Typed(id) /\ delivered'[id] # delivered[id]) =>
            LET alone == Alone(id) IN
            /\ delivered[id] = <<>>
            /\ Len(delivered'[id]) = 1
            /\ delivered'[id][1] \in alone
            /\ OverServer => Cardinality(alone) = 1]_vars
\* two interleaved calls with different requests through one transport
\* client: call 1 was abandoned by the transport, call 2 was echoed
C11_Witness ==
    /\ client = Channel(EchoService(FALSE), 1)
    /\ req[1] = [name |-> "echo", input |-> Msg("EchoRequest", <<>>)]
    /\ req[2] = [name |-> "echo", input |-> Msg("EchoRequest", TestData)]
    /\ cpolls[1] >= 2 /\ cpolls[2] >= 2
    /\ delivered[1] = <<Err(Execution(CanceledErr))>>
    /\ delivered[2] = <<Ready(Msg("EchoResponse", TestData))>>

\* C12: for every message m of a supported type, encode(m) succeeds with a
\* buffer b, and decode(b) at m's type returns a message equal to m.
C12_CodecRoundTrip ==
    /\ (codec.st = "Encoded" /\ codec.msg.type \in MessageTypes) => codec.buf.tag = "Ok"
    /\ (codec.st = "Decoded" /\ codec.msg.type \in MessageTypes) => codec.back = Ok(codec.msg)
\* EchoRequest { data: vec![1, 2, 3] } went to the wire and came back
C12_Witness ==
    /\ codec.st = "Decoded"
    /\ codec.msg = Msg("EchoRequest", TestData)
    /\ codec.buf = Ok(<<10, 3, 1, 2, 3>>)
    /\ codec.back = Ok(Msg("EchoRequest", TestData))

\* whether the service declares a method with streaming semantics
HasStreaming(service) ==
    \E i \in 1..Len(service.methods) :
        service.methods[i].client_streaming \/ service.methods[i].server_streaming
\* C13: generating code for a service that declares a client-streaming or
\* server-streaming method fails and leaves the output buffer as it was; for
\* any other service it succeeds and appends that service's code.
C13_RejectsStreaming ==
    [][(gen.st = "Running" /\ gen' # gen) =>
         IF HasStreaming(Head(gen.todo))
            THEN gen'.st = "Failed" /\ gen'.buf = gen.buf
            ELSE /\ gen'.st = "Running"
                 /\ gen'.buf = Append(gen.buf, Emitted(Head(gen.todo)))]_vars
\* Echo was generated, then Greeting, whose SayGoodbye streams its responses,
\* was rejected: the buffer holds the code of Echo only
C13_Witness ==
    /\ gen.st = "Failed"
    /\ Len(gen.todo) = 1
    /\ gen.todo[1].name = "Greeting"
    /\ ~gen.todo[1].methods[1].server_streaming /\ gen.todo[1].methods[2].server_streaming
    /\ Len(gen.buf) = 1 /\ gen.buf[1].service = "Echo"

\* C14: a poll of ClientFuture (ServerFuture) returns NotReady exactly when
\* that poll polled the in-flight handler (business) operation and it
\* reported not ready; the poll then made that one inner poll only and
\* leaves the future in Call (Execute) holding that operation, never in
\* Encode (Decode).
C14_Suspension ==
    [][/\ \A id \in CallIds :
            cpolls'[id] # cpolls[id] =>
                /\ cret'[id] = NotReady
                     <=> (ops'[id].polls # ops[id].polls /\ ops'[id].last = NotReady)
                /\ cret'[id] = NotReady =>
                     /\ ops'[id].polls = ops[id].polls + 1
                     /\ cf'[id].st = "Call" /\ ops'[id].live
                     /\ cf[id].st = "Call" =>
                          \E o \in PollCallFuture(cf[id].future) :
                              o.res = NotReady /\ cf'[id].future = o.fut
       /\ spolls' # spolls =>
            /\ sret' = NotReady <=> (sop'.polls # sop.polls /\ sop'.last = NotReady)
            /\ sret' = NotReady =>
                 /\ sop'.polls = sop.polls + 1
                 /\ sf'.st = "Execute" /\ sop'.live
                 /\ sf.st = "Execute" => sf'.future = sf.future]_vars
\* both futures are suspended, the ClientFuture for the second time
C14_Witness ==
    /\ cf[1].st = "Call" /\ cret[1] = NotReady /\ cpolls[1] = 2
    /\ ops[1].polls = 2 /\ ops[1].last = NotReady /\ ops[1].live
    /\ sf.st = "Execute" /\ sret = NotReady /\ sop.last = NotReady /\ sop.live

\* C15: a ServerFuture completes (1) with the Decode error, and without
\* invoking the business method, when its payload cannot be decoded;
\* otherwise it invokes the business method once with the decoded input and
\* completes (2) with Execution(e) when the business future fails with e,
\* (3) with the Encode error when the output cannot be encoded, (4) with the
\* bytes encode(output) otherwise.
C15_ServerFutureOutcome ==
    [][spolls' # spolls =>
        LET input == decode(sf.bytes, InputType(sf.handler, sf.method))
            r == sop'.last
        IN
        /\ (sf.st = "Decode" /\ input.tag = "Err") =>
             /\ sret' = Err(DecodeErr)
             /\ scalls' = <<>> /\ sop' = NoOp
        /\ (sf.st = "Decode" /\ input.tag = "Ok") =>
             /\ scalls' = <<[method |-> sf.method, input |-> input.val]>>
             /\ sop'.polls = 1
             /\ \E f \in Business(sf.handler, sf.method, input.val) : r = PollBusiness(f)
        /\ sf.st = "Execute" =>
             /\ scalls' = scalls
             /\ r = PollBusiness(sf.future)
        /\ ((sf.st = "Decode" /\ input.tag = "Ok") \/ sf.st = "Execute") =>
             /\ r.tag = "Err" => sret' = Err(Execution(r.err))
             /\ (r.tag = "Ready" /\ encode(r.val).tag = "Err") => sret' = Err(EncodeErr)
             /\ (r.tag = "Ready" /\ encode(r.val).tag = "Ok") => sret' = Ready(encode(r.val).val)
             /\ r.tag = "NotReady" => sret' = NotReady]_vars
\* a ServerFuture over EchoService::echo answered the payload 0a 01 01
C15_Witness ==
    /\ sf.st = "Done"
    /\ scalls = <<[method |-> "echo", input |-> Msg("EchoRequest", <<1>>)]>>
    /\ sop.last = Ready(Msg("EchoResponse", <<1>>))
    /\ sret = Ready(<<10, 1, 1>>)
    /\ sdelivered = <<Ready(<<10, 1, 1>>)>>

\* the ServerFuture that stands where the generated server's future f stands
AsServerFuture(f) ==
    IF f.st = "Decoded" THEN ServerFuture("Decode", hc.payload, hc.service, hc.name, Nil)
    ELSE IF f.st = "Executing" THEN ServerFuture("Execute", <<>>, Nil, NoName, f.fut)
    ELSE ServerDone
\* C16: for the same method, payload and business outcome, the future the
\* generated server's call returns and a ServerFuture over the same business
\* method complete with the same bytes or the same Error: every poll of the
\* one returns what a poll of the other returns for the same business
\* future, and leaves it where the other is left; behind the example
\* services, whose business outcome is a function of the input, the two
\* have delivered the same results after the same number of polls.
C16_ServerEquivalence ==
    hc.st = "Live" =>
        /\ {<<o.res, AsServerFuture(o.fut)>> : o \in PollCallFuture(hc.fut)}
             = {<<o.res, o.self>> : o \in ServerPoll(AsServerFuture(hc.fut))}
        /\ (hc.service.kind # "AnyEcho" /\ hc.polls = spolls) => hc.delivered = sdelivered
\* the payload 0a 01 01 was answered with the same bytes by both
C16_Witness ==
    /\ hc.st = "Live" /\ hc.service = EchoService(FALSE) /\ hc.payload = <<10, 1, 1>>
    /\ hc.delivered = <<Ready(<<10, 1, 1>>)>>
    /\ sdelivered = <<Ready(<<10, 1, 1>>)>>

\* C17: over all the polls of one ClientFuture handler.call is invoked at
\* most once: once, at the first poll, when the input can be encoded, and
\* never when it cannot; a later poll, after a NotReady or after an error
\* of the handler, does not invoke it again.
C17_NoRetry ==
    \A id \in CallIds :
        /\ Len(calls[id]) <= 1
        /\ cpolls[id] = 0 => calls[id] = <<>>
        /\ (req[id] # Nil /\ Polled(id)) =>
             IF encode(req[id].input).tag = "Ok" THEN Len(calls[id]) = 1
             ELSE calls[id] = <<>>
\* a call that was suspended, then failed with the handler's error, and was
\* polled once more: still one handler.call
C17_Witness ==
    /\ cpolls[1] = 3 /\ cret[1] = Panicked
    /\ ops[1].polls = 2 /\ ops[1].last.tag = "Err"
    /\ Len(calls[1]) = 1

\* C18: a ClientFuture is seeded with the input, handler and method it was
\* constructed with, keeps them until its first poll, and that poll invokes
\* the handler with exactly that method descriptor and exactly the bytes
\* encode(input).
C18_CallArguments ==
    [][\A id \in CallIds :
        /\ (cf[id] = Unborn /\ cf'[id] # Unborn) =>
             /\ cf'[id].st = "Encode"
             /\ cf'[id].input = req'[id].input
             /\ cf'[id].handler = client
        /\ (cf[id].st = "Encode" /\ cf'[id].st = "Encode") => cf'[id] = cf[id]
        /\ calls'[id] # calls[id] =>
             /\ cf[id].st = "Encode"
             /\ calls'[id] = <<[method |-> cf[id].method,
                               input |-> encode(req[id].input).val]>>]_vars
\* two calls of one client: SayHello("dflemstr") and SayGoodbye("")
C18_Witness ==
    /\ calls[1] = <<[method |-> "SayHello", input |-> <<10, 8>> \o TestName]>>
    /\ req[1] = [name |-> "say_hello", input |-> Msg("SayHelloRequest", TestName)]
    /\ calls[2] = <<[method |-> "SayGoodbye", input |-> <<>>]>>
    /\ req[2] = [name |-> "say_goodbye", input |-> Msg("SayGoodbyeRequest", <<>>)]

\* C19: whenever a poll of a ClientFuture or a ServerFuture returns a value
\* or an error (a local encode or decode failure and an error of the
\* handler or the business logic included), it leaves the future in Done,
\* holding nothing; never in Encode / Decode or Call / Execute.
C19_CompletionConsumes ==
    [][/\ \A id \in CallIds :
            (cpolls'[id] # cpolls[id] /\ cret'[id].tag \in {"Ready", "Err"}) =>
                /\ cf'[id] = ClientDone(cf[id].O)
                /\ ~ops'[id].live
       /\ (spolls' # spolls /\ sret'.tag \in {"Ready", "Err"}) =>
            /\ sf' = ServerDone
            /\ ~sop'.live]_vars
\* the ClientFuture completed with its own encode failure, the ServerFuture
\* with the error of the business logic
C19_Witness ==
    /\ cf[1].st = "Done" /\ cret[1] = Err(EncodeErr) /\ calls[1] = <<>>
    /\ sf.st = "Done" /\ sret = Err(Execution(BizError)) /\ sop.last = Err(BizError)

\* C20: a poll of a ClientFuture in Encode or Call, or of a ServerFuture in
\* Decode or Execute, never panics: it returns a value, NotReady or an
\* Error, and a failure of the codec, the handler or the business logic is
\* returned as an Error; only a poll in Done panics.
C20_OnlyRepollPanics ==
    [][/\ \A id \in CallIds :
            cpolls'[id] # cpolls[id] =>
                /\ cret'[id] = Panicked <=> cf[id].st = "Done"
                /\ cf[id].st \in {"Encode", "Call"} =>
                     /\ cret'[id].tag \in {"Ready", "NotReady", "Err"}
                     /\ (ops'[id].polls # ops[id].polls /\ ops'[id].last.tag = "Err")
                          => cret'[id].tag = "Err"
       /\ spolls' # spolls =>
            /\ sret' = Panicked <=> sf.st = "Done"
            /\ sf.st \in {"Decode", "Execute"} =>
                 /\ sret'.tag \in {"Ready", "NotReady", "Err"}
                 /\ (sop'.polls # sop.polls /\ sop'.last.tag = "Err") => sret'.tag = "Err"]_vars
\* the transport abandoned the call and the server's payload was malformed:
\* both polls returned an Error
C20_Witness ==
    /\ cpolls[1] = 1 /\ ops[1].last = Err(CanceledErr) /\ cret[1].tag = "Err"
    /\ spolls = 1 /\ scalls = <<>> /\ sret = Err(DecodeErr)

\* C21: when the operation of the handler eventually completes and the call
\* is polled again after every NotReady and not dropped, the ClientFuture
\* eventually reaches Done with exactly one result delivered; it never
\* delivers a second one, and a single poll moves the future at most two
\* states forward, making at most one handler.call and one inner poll.
C21_EventualCompletion ==
    /\ [](Exists(cf[1]) => <>(cf[1].st = "Done" /\ Len(delivered[1]) = 1))
    /\ [](Len(delivered[1]) <= 1)
    /\ [][cpolls'[1] # cpolls[1] =>
            /\ Rank(cf'[1].st) - Rank(cf[1].st) <= 2
            /\ Len(calls'[1]) - Len(calls[1]) <= 1
            /\ ops'[1].polls - ops[1].polls <= 1]_vars
\* the call was suspended twice, by the transport and by the business
\* logic behind it, and completed at its third poll
C21_Witness ==
    /\ cf[1].st = "Done"
    /\ cpolls[1] = 3 /\ ops[1].polls = 3
    /\ Len(delivered[1]) = 1

\* C22: in the example GreetingService each method fails by its own flag:
\* say_hello fails exactly when fail_hello is set and say_goodbye exactly
\* when fail_goodbye is set; a method that does not fail returns its
\* greeting, so with fail_hello set and fail_goodbye clear say_goodbye
\* returns "Goodbye, <name>!".
C22_OwnFlag ==
    \A id \in CallIds :
        (OverServer /\ client.service.kind = "GreetingService" /\ Typed(id) /\ Polled(id)) =>
            LET own == IF req[id].name = "say_hello" THEN client.service.fail_hello
                       ELSE client.service.fail_goodbye
                greeting == IF req[id].name = "say_hello" THEN Hello(req[id].input.data)
                            ELSE Goodbye(req[id].input.data)
            IN  /\ Len(delivered[id]) = 1
                /\ delivered[id][1].tag = "Err" <=> own
                /\ ~own => delivered[id] = <<Ready(greeting)>>

=============================================================================
